---- MODULE Spec2Model ----
(***************************************************************************)
(* Bulk send / single send pipeline of the SMTP relay (emailService.ts).   *)
(* One call (sendEmail or sendBulkEmails) runs against a Configuration     *)
(* Store that other handlers may change while the call is suspended at an  *)
(* await.                                                                  *)
(***************************************************************************)
EXTENDS Integers, Sequences, FiniteSets, TLC

VARIABLES req, store, storeOps, bulk, send, logs, tpl, built, api, trk, hook

\* The send pipeline's state; tpl, built, api, trk and hook hold the state
\* of the template renderer, of the per-recipient request builder, of the
\* HTTP boundary, of open tracking and of the webhook dispatcher, which are
\* specified on their own below.
sendVars == <<req, store, storeOps, bulk, send, logs>>

aux == <<tpl, built, api, trk, hook>>

vars == <<req, store, storeOps, bulk, send, logs, tpl, built, api, trk, hook>>

\* ------------------------------------------------------------------ bounds
MaxRecipients == 2
MaxStoreOps == 1
\* Longest template, in parts ("{{", "}}", a blank, a word).
MaxParts == 6
\* Open-tracking requests in one run.
MaxRequests == 2
MaxWebhooks == 2

\* Cap of the batch and pause counters and of the loop index below zero;
\* above the number of batches any positive batchSize yields.
MaxBatches == MaxRecipients + 2

\* ------------------------------------------------------- program constants
DefaultBatchSize == 10

None == "none"
ConfigIds == {"c1", "c2"}
\* The smtpConfigId values a request may name (None: not supplied).
RequestConfigIds == {"c1", None}
\* The templates the Template Store holds.
TemplateIds == {"t1"}
\* The templateId values a request may name: none, a stored template, a
\* template the store does not hold.
RequestTemplateIds == {None, "t1", "gone"}

\* data.from: an EmailRecipient, or absent (NoSender).
NoSender == [email |-> None, name |-> None]
Senders ==
  {NoSender, [email |-> "f@x", name |-> None], [email |-> "g@x", name |-> "Gil"]}

Min(a, b) == IF a < b THEN a ELSE b
Max(a, b) == IF a > b THEN a ELSE b

\* The recipient records a request may carry (EmailRecipient).
AllRecipients ==
  <<[email |-> "a@x", name |-> "Ann"],
    [email |-> "b@x", name |-> None],
    [email |-> "c@x", name |-> "Cy"],
    [email |-> "d@x", name |-> "Di"]>>

\* ------------------------------------------------------------ the request
\* batchSize as the request carries it: any number; a request without one
\* gets the default (const { batchSize = 10 } = data).
BatchSizes == {-1, 0, 1, 2, DefaultBatchSize}

Requests ==
  [mode : {"single", "bulk"},
   n : 0..MaxRecipients,
   batchSize : BatchSizes,
   smtpConfigId : RequestConfigIds,
   dynamic : BOOLEAN,
   templateId : RequestTemplateIds,
   from : Senders]

recipients == SubSeq(AllRecipients, 1, req.n)

batchSize == req.batchSize

\* data.to of the send at position s: the whole list for a direct sendEmail
\* call, the single recipient for a send issued by sendBulkEmails.
To(s) == IF req.mode = "single" THEN recipients ELSE <<recipients[s]>>

\* The sendEmail invocations of the call: one for a direct call, one per
\* recipient position for a bulk call.
Sends == IF req.mode = "single" THEN {1} ELSE 1..req.n

\* ------------------------------------------------------ Configuration Store
Stores ==
  {st \in [present : SUBSET ConfigIds, dflt : ConfigIds \cup {None}] :
     st.dflt = None \/ st.dflt \in st.present}

\* configs.find(c => c.id === smtpConfigId)
getSmtpConfig(st, id) == IF id \in st.present THEN id ELSE None

getDefaultSmtpConfig(st) == st.dflt

\* ------------------------------------------------------------ createTransport
\* Priority: 1. dynamic config from request, 2. stored config by id,
\* 3. default config.  The result names the configuration the transport is
\* bound to, or the error thrown.
\* Mutant: the stored config named by id is tried before the inline one.
createTransportIdFirst(smtpConfigId, dynamic, st) ==
  IF smtpConfigId # None /\ getSmtpConfig(st, smtpConfigId) # None
  THEN [ok |-> TRUE, cfg |-> smtpConfigId, err |-> None]
  ELSE IF dynamic
  THEN [ok |-> TRUE, cfg |-> "dynamic", err |-> None]
  ELSE IF getDefaultSmtpConfig(st) = None
       THEN [ok |-> FALSE, cfg |-> None, err |-> "NoDefaultConfig"]
       ELSE [ok |-> TRUE, cfg |-> getDefaultSmtpConfig(st), err |-> None]

createTransport(smtpConfigId, dynamic, st) ==
  IF dynamic
  THEN [ok |-> TRUE, cfg |-> "dynamic", err |-> None]
  ELSE IF smtpConfigId # None
  THEN IF getSmtpConfig(st, smtpConfigId) = None
       THEN [ok |-> FALSE, cfg |-> None, err |-> "ConfigNotFound"]
       ELSE [ok |-> TRUE, cfg |-> smtpConfigId, err |-> None]
  ELSE IF getDefaultSmtpConfig(st) = None
       THEN [ok |-> FALSE, cfg |-> None, err |-> "NoDefaultConfig"]
       ELSE [ok |-> TRUE, cfg |-> getDefaultSmtpConfig(st), err |-> None]

\* ------------------------------------------------------------------ state
IdleSend ==
  [pc |-> "idle", transport |-> None, smtpConfig |-> None, k |-> 0,
   content |-> None, from |-> <<>>,
   err |-> None, mid |-> None, attempts |-> 0, delivers |-> 0, logErrors |-> 0,
   batchNo |-> 0,
   outcome |-> None, result |-> None]

IdleBulk ==
  [pc |-> "idle", i |-> 0, batch |-> {}, nbatches |-> 0, pauses |-> 0,
   totalSent |-> 0, failures |-> <<>>, result |-> None]

\* The renderer, the request builder and the HTTP boundary at rest.
IdleAux == tpl = None /\ built = None /\ api = None /\ trk = None /\ hook = None

\* A call of either kind about to be made, by a caller that names no sender
\* and no template (sends that name one are followed under SpecSingle and
\* SpecBulkRender).
Init ==
  /\ req \in Requests
  /\ (req.mode = "single") => (req.n >= 1 /\ req.batchSize = DefaultBatchSize)
  /\ req.from = NoSender
  /\ req.templateId = None
  /\ store \in Stores
  /\ storeOps = 0
  /\ bulk = IdleBulk
  /\ send = [s \in Sends |-> IdleSend]
  /\ logs = [s \in Sends |-> <<>>]
  /\ IdleAux

\* A direct sendEmail call about to be made, with any sender and template
\* reference.
InitSingle ==
  /\ req \in Requests
  /\ req.mode = "single"
  /\ req.n >= 1
  /\ req.batchSize = DefaultBatchSize
  /\ store \in Stores
  /\ storeOps = 0
  /\ bulk = IdleBulk
  /\ send = [s \in Sends |-> IdleSend]
  /\ logs = [s \in Sends |-> <<>>]
  /\ IdleAux

\* ------------------------------------------------------------- log entries
\* `Message sent: ${info.messageId}`
sentMessage(mid) == [text |-> "Message sent", mid |-> mid]

\* error.message
errorMessage(err) == [text |-> err, mid |-> None]

\* EmailLogEntry written after a successful sendMail (lines 299-308).
successEntry(s, recipient) ==
  [recipient |-> recipient.email, success |-> TRUE,
   smtpConfig |-> send[s].smtpConfig, message |-> sentMessage(send[s].mid)]

\* EmailLogEntry written by the catch block (lines 320-328).
failureEntry(s, recipient) ==
  [recipient |-> recipient.email, success |-> FALSE,
   smtpConfig |-> IF req.smtpConfigId # None THEN req.smtpConfigId ELSE "unknown",
   message |-> errorMessage(send[s].err)]

\* logEmailActivity, when the append succeeds.
logEmailActivity(log, entry) == Append(log, entry)

\* ------------------------------------------------ sendBulkEmails: the tally
\* The per-recipient wrapper around sendEmail (lines 389-404): a success
\* result increments totalSent, a failure result or a thrown error appends
\* to failures.
\* Mutant: the success counter is bumped before the result is inspected.
tallyCountsEverySend(b, recipient, outcome, message) ==
  IF outcome = "ok"
  THEN [b EXCEPT !.totalSent = @ + 1]
  ELSE [b EXCEPT !.totalSent = @ + 1,
                 !.failures = Append(@, [email |-> recipient.email, error |-> message])]

\* Mutant: the wrapper has no catch, so a thrown error is never recorded.
tallyDropsThrown(b, recipient, outcome, message) ==
  IF outcome = "ok"
  THEN [b EXCEPT !.totalSent = @ + 1]
  ELSE IF outcome = "thrown"
  THEN b
  ELSE [b EXCEPT !.failures = Append(@, [email |-> recipient.email, error |-> message])]

tally(b, recipient, outcome, message) ==
  IF outcome = "ok"
  THEN [b EXCEPT !.totalSent = @ + 1]
  ELSE [b EXCEPT !.failures = Append(@, [email |-> recipient.email, error |-> message])]

\* sendEmail settles for the send at position s: it returns a result
\* ("ok" / "fail") or an error escapes it ("thrown").  Within a bulk call
\* the wrapper's continuation runs next and updates the tally.
Settle(s, snd, outcome, message) ==
  /\ send' = [send EXCEPT ![s] =
                [snd EXCEPT !.pc = "done", !.outcome = outcome,
                            !.result = IF outcome = "thrown" THEN None
                                       ELSE [success |-> (outcome = "ok"),
                                             message |-> message]]]
  /\ bulk' = IF req.mode = "bulk"
             THEN tally(bulk, recipients[s], outcome, message)
             ELSE bulk

\* ---------------------------------------------------------------- sendEmail
\* const transport = await createTransport(smtpConfigId, data.smtpConfig)
CreateTransport(s) ==
  /\ s \in Sends
  /\ send[s].pc = "createTransport"
  /\ LET r == createTransport(req.smtpConfigId, req.dynamic, store) IN
       send' = [send EXCEPT ![s] =
                  IF r.ok
                  THEN [@ EXCEPT !.pc = "lookup", !.transport = r.cfg]
                  ELSE [@ EXCEPT !.pc = "catch", !.err = r.err, !.k = 0]]
  /\ UNCHANGED <<aux, req, store, storeOps, bulk, logs>>

\* The second resolution of the configuration (lines 247-263).
lookupConfig(smtpConfigId, dynamic, st) ==
  IF dynamic THEN "dynamic"
  ELSE IF smtpConfigId # None THEN getSmtpConfig(st, smtpConfigId)
  ELSE getDefaultSmtpConfig(st)

Lookup(s) ==
  /\ s \in Sends
  /\ send[s].pc = "lookup"
  /\ LET c == lookupConfig(req.smtpConfigId, req.dynamic, store) IN
       IF c = None
       THEN \* return { success: false, message: 'SMTP configuration not found' }
            Settle(s, send[s], "fail", errorMessage("SMTP configuration not found"))
       ELSE /\ send' = [send EXCEPT ![s] = [@ EXCEPT !.pc = "content", !.smtpConfig = c]]
            /\ bulk' = bulk
  /\ UNCHANGED <<aux, req, store, storeOps, logs>>

\* generateEmailContent, once the Template Store has answered with the
\* templates it holds: the literal subject and body when no templateId is
\* given or the store lacks the template, the rendered template otherwise.
generateEmailContent(templateId, templates) ==
  IF templateId = None THEN "literal"
  ELSE IF templateId \in templates THEN "template"
  ELSE "literal"

\* let { subject, body } = await generateEmailContent(...): with a
\* templateId the Template Store is read first, which may fail.  Inline
\* images (lines 273-276) are left out: bulk sends carry none.
Content(s) ==
  /\ s \in Sends
  /\ send[s].pc = "content"
  /\ \/ LET c == generateEmailContent(req.templateId, TemplateIds) IN
          send' = [send EXCEPT ![s] =
                     IF c \in {"literal", "template"}
                     THEN [@ EXCEPT !.pc = "deliver", !.content = c]
                     ELSE [@ EXCEPT !.pc = "catch", !.err = c, !.k = 0]]
     \/ /\ req.templateId # None
        /\ send' = [send EXCEPT ![s] =
                      [@ EXCEPT !.pc = "catch", !.err = "TemplateStoreError", !.k = 0]]
  /\ UNCHANGED <<aux, req, store, storeOps, bulk, logs>>

\* smtpConfig.auth.user / smtpConfig.user: the account a configuration
\* authenticates as.
authUser(cfg) ==
  CASE cfg = "c1" -> "u1@x"
    [] cfg = "c2" -> "u2@x"
    [] OTHER -> "dyn@x"

\* formatRecipient: `"name" <email>` with a name, the bare address without.
formatRecipient(r) ==
  IF r.name # None THEN <<"\"", r.name, "\" <", r.email, ">">> ELSE <<r.email>>

\* mailOptions.from (lines 279-285): the caller's sender when given, else the
\* account of the configuration found by the second lookup.
mailFrom(from, smtpConfig) ==
  IF from # NoSender THEN formatRecipient(from) ELSE <<authUser(smtpConfig)>>

\* const info = await transport.sendMail(mailOptions)
Deliver(s) ==
  /\ s \in Sends
  /\ send[s].pc = "deliver"
  /\ \/ send' = [send EXCEPT ![s] =
                   [@ EXCEPT !.pc = "logOk", !.mid = "MID1", !.k = 0,
                             !.from = mailFrom(req.from, send[s].smtpConfig),
                             !.delivers = @ + 1]]
     \/ send' = [send EXCEPT ![s] =
                   [@ EXCEPT !.pc = "catch", !.err = "TransportError", !.k = 0,
                             !.from = mailFrom(req.from, send[s].smtpConfig),
                             !.delivers = @ + 1]]
  /\ UNCHANGED <<aux, req, store, storeOps, bulk, logs>>

\* The success loop (lines 297-312): one entry per recipient of data.to,
\* then return { success: true }.  An append that raises enters the catch.
LogSuccess(s) ==
  /\ s \in Sends
  /\ send[s].pc = "logOk"
  /\ \/ /\ logs' = [logs EXCEPT ![s] =
                      logEmailActivity(@, successEntry(s, To(s)[send[s].k + 1]))]
        /\ IF send[s].k + 1 = Len(To(s))
           THEN Settle(s, [send[s] EXCEPT !.k = @ + 1], "ok",
                       sentMessage(send[s].mid))
           ELSE /\ send' = [send EXCEPT ![s] = [@ EXCEPT !.k = @ + 1]]
                /\ bulk' = bulk
     \/ /\ send' = [send EXCEPT ![s] =
                      [@ EXCEPT !.pc = "catch", !.err = "LogError", !.k = 0,
                                !.logErrors = @ + 1]]
        /\ UNCHANGED <<bulk, logs>>
  /\ UNCHANGED <<aux, req, store, storeOps>>

\* The catch block (lines 313-337): one failure entry per recipient of
\* data.to, then return { success: false }.  An append that raises here is
\* not caught.
LogFailure(s) ==
  /\ s \in Sends
  /\ send[s].pc = "catch"
  /\ \/ /\ logs' = [logs EXCEPT ![s] =
                      logEmailActivity(@, failureEntry(s, To(s)[send[s].k + 1]))]
        /\ IF send[s].k + 1 = Len(To(s))
           THEN Settle(s, [send[s] EXCEPT !.k = @ + 1], "fail", errorMessage(send[s].err))
           ELSE /\ send' = [send EXCEPT ![s] = [@ EXCEPT !.k = @ + 1]]
                /\ bulk' = bulk
     \/ /\ Settle(s, [send[s] EXCEPT !.logErrors = @ + 1], "thrown",
                  errorMessage("LogError"))
        /\ UNCHANGED logs
  /\ UNCHANGED <<aux, req, store, storeOps>>

\* A direct sendEmail call (the single-send endpoint).
CallSendEmail ==
  /\ req.mode = "single"
  /\ send[1].pc = "idle"
  /\ send' = [send EXCEPT ![1] = [@ EXCEPT !.pc = "createTransport",
                                           !.attempts = @ + 1]]
  /\ UNCHANGED <<aux, req, store, storeOps, bulk, logs>>

\* ------------------------------------------------------------ sendBulkEmails
\* Array.prototype.slice(from, to) on an array of length n, as the set of
\* 1-based positions it selects.
sliceStart(n, k) == IF k < 0 THEN Max(n + k, 0) ELSE Min(k, n)

slice(n, from, to) == (sliceStart(n, from) + 1)..sliceStart(n, to)

\* The early return for an empty recipient list (lines 353-360).
noRecipientsResult ==
  [success |-> FALSE, totalSent |-> 0, totalFailed |-> 0, failures |-> <<>>]

\* if (!recipients || recipients.length === 0), on a list of length n (a
\* missing list has no length and takes the same branch).
\* Mutant: the test is dropped and the loop is entered.
noRecipientsUnchecked(n) == FALSE

noRecipients(n) == n = 0

\* The final result (lines 415-421).
\* Mutant: success is reported only when nothing failed.
bulkResultAllOrNothing(b) ==
  [success |-> Len(b.failures) = 0, totalSent |-> b.totalSent,
   totalFailed |-> Len(b.failures), failures |-> b.failures]

bulkResult(b) ==
  [success |-> b.totalSent > 0, totalSent |-> b.totalSent,
   totalFailed |-> Len(b.failures), failures |-> b.failures]

CallSendBulkEmails ==
  /\ req.mode = "bulk"
  /\ bulk.pc = "idle"
  /\ bulk' = IF noRecipients(req.n)
             THEN [bulk EXCEPT !.pc = "done", !.result = noRecipientsResult]
             ELSE [bulk EXCEPT !.pc = "loop", !.i = 0]
  /\ UNCHANGED <<aux, req, store, storeOps, send, logs>>

\* One test of the loop condition (line 366): either the next batch is
\* sliced and every send of it is issued, or the loop ends and the result is
\* returned.
\* Mutant: the batch is sliced from the start of the list.
nextBatchFromStart(n, i, size) == slice(n, 0, i + size)

nextBatch(n, i, size) == slice(n, i, i + size)

BulkLoop ==
  /\ bulk.pc = "loop"
  /\ IF bulk.i < req.n
     THEN LET batch == nextBatch(req.n, bulk.i, batchSize) IN
          /\ bulk' = [bulk EXCEPT !.pc = "await", !.batch = batch,
                                  !.nbatches = Min(@ + 1, MaxBatches)]
          /\ send' = [s \in Sends |->
                        IF s \in batch
                        THEN [send[s] EXCEPT !.pc = "createTransport",
                                             !.attempts = @ + 1,
                                             !.batchNo = Min(bulk.nbatches + 1, MaxBatches)]
                        ELSE send[s]]
     ELSE /\ bulk' = [bulk EXCEPT !.pc = "done", !.result = bulkResult(bulk)]
          /\ send' = send
  /\ UNCHANGED <<aux, req, store, storeOps, logs>>

\* await Promise.all(promises): every wrapper of the batch has settled.
\* Mutant: the loop goes on without awaiting the batch.
batchNotAwaited(snd, batch) == TRUE

batchSettled(snd, batch) == \A s \in batch : snd[s].pc = "done"

\* if (i + batchSize < recipients.length)
moreBatches(n, i, size) == i + size < n

\* i += batchSize (line 366). An index at or below -MaxBatches selects what
\* every lower index selects (nothing), so a falling index is kept there.
advance(i, size) == Max(i + size, -MaxBatches)

BulkAwait ==
  /\ bulk.pc = "await"
  /\ batchSettled(send, bulk.batch)
  /\ bulk' = IF moreBatches(req.n, bulk.i, batchSize)
             THEN [bulk EXCEPT !.pc = "delay"]
             ELSE [bulk EXCEPT !.pc = "loop", !.i = advance(@, batchSize)]
  /\ UNCHANGED <<aux, req, store, storeOps, send, logs>>

\* The inter-batch pause has elapsed (line 411); i += batchSize.
BulkDelay ==
  /\ bulk.pc = "delay"
  /\ bulk' = [bulk EXCEPT !.pc = "loop", !.i = advance(@, batchSize),
                          !.pauses = Min(@ + 1, MaxBatches)]
  /\ UNCHANGED <<aux, req, store, storeOps, send, logs>>

\* --------------------------------- Configuration Store: add, update, delete
AddSmtpConfig(id, isDefault) ==
  /\ storeOps < MaxStoreOps
  /\ id \notin store.present
  /\ store' = [present |-> store.present \cup {id},
               dflt |-> IF isDefault THEN id ELSE store.dflt]
  /\ storeOps' = storeOps + 1
  /\ UNCHANGED <<aux, req, bulk, send, logs>>

UpdateSmtpConfig(id, isDefault) ==
  /\ storeOps < MaxStoreOps
  /\ id \in store.present
  /\ store' = [store EXCEPT !.dflt = IF isDefault THEN id
                                     ELSE IF @ = id THEN None ELSE @]
  /\ storeOps' = storeOps + 1
  /\ UNCHANGED <<aux, req, bulk, send, logs>>

DeleteSmtpConfig(id) ==
  /\ storeOps < MaxStoreOps
  /\ id \in store.present
  /\ store' = [present |-> store.present \ {id},
               dflt |-> IF store.dflt = id THEN None ELSE store.dflt]
  /\ storeOps' = storeOps + 1
  /\ UNCHANGED <<aux, req, bulk, send, logs>>

\* ------------------------------------------------------------ specification
StoreStep ==
  \E id \in ConfigIds :
    \/ \E isDefault \in BOOLEAN : AddSmtpConfig(id, isDefault)
    \/ \E isDefault \in BOOLEAN : UpdateSmtpConfig(id, isDefault)
    \/ DeleteSmtpConfig(id)

Next ==
  \/ CallSendEmail
  \/ CallSendBulkEmails
  \/ BulkLoop
  \/ BulkAwait
  \/ BulkDelay
  \/ \E s \in 1..MaxRecipients :
       \/ CreateTransport(s)
       \/ Lookup(s)
       \/ Content(s)
       \/ Deliver(s)
       \/ LogSuccess(s)
       \/ LogFailure(s)
  \/ StoreStep

Spec == Init /\ [][Next]_vars

\* A sendBulkEmails call about to be made, in which every step that can be
\* taken is eventually taken: the event loop runs every continuation, timers
\* fire, and every collaborator call settles.
InitBulk ==
  /\ Init
  /\ req.mode = "bulk"

SendStep(s) ==
  \/ CreateTransport(s)
  \/ Lookup(s)
  \/ Content(s)
  \/ Deliver(s)
  \/ LogSuccess(s)
  \/ LogFailure(s)

NextBulk ==
  \/ CallSendBulkEmails
  \/ BulkLoop
  \/ BulkAwait
  \/ BulkDelay
  \/ \E s \in 1..MaxRecipients : SendStep(s)
  \/ StoreStep

Fairness ==
  /\ WF_vars(CallSendBulkEmails)
  /\ WF_vars(BulkLoop)
  /\ WF_vars(BulkAwait)
  /\ WF_vars(BulkDelay)
  /\ \A s \in 1..MaxRecipients : WF_vars(SendStep(s))

SpecBulkFair == InitBulk /\ [][NextBulk]_vars /\ Fairness

\* A direct sendEmail call alone, against the changing Configuration Store.
NextSingle ==
  \/ CallSendEmail
  \/ \E s \in 1..MaxRecipients :
       \/ CreateTransport(s)
       \/ Lookup(s)
       \/ Content(s)
       \/ Deliver(s)
       \/ LogSuccess(s)
       \/ LogFailure(s)
  \/ StoreStep

SpecSingle == InitSingle /\ [][NextSingle]_vars

\* ----------------------------------------------------------- processTemplate
\* The send pipeline at rest, while another part is exercised on its own.
QuietSend ==
  /\ req = [mode |-> "bulk", n |-> 0, batchSize |-> DefaultBatchSize,
            smtpConfigId |-> None, dynamic |-> FALSE, templateId |-> None,
            from |-> NoSender]
  /\ store = [present |-> {}, dflt |-> None]
  /\ storeOps = 0
  /\ bulk = IdleBulk
  /\ send = <<>>
  /\ logs = <<>>

\* A template is a string; it is held as the sequence of its characters,
\* with a word (a run of characters other than braces and blanks) held as
\* one element.  Templates are composed of these parts.
TemplateParts == {<<"{", "{">>, <<"}", "}">>, <<" ">>, <<"name">>, <<"constructor">>}

RECURSIVE Flatten(_)
Flatten(parts) ==
  IF parts = <<>> THEN <<>> ELSE Head(parts) \o Flatten(Tail(parts))

\* JavaScript values that templateData may hold, each with its string form.
Str(chars) == [t |-> "string", s |-> chars]
Zero == [t |-> "number", s |-> <<"0">>]
Undefined == [t |-> "undefined", s |-> <<"undefined">>]
\* Object.prototype.constructor, which every plain object inherits.
ObjectFunction == [t |-> "function", s |-> <<"function Object() { [native code] }">>]
ObjectPrototype == [k \in {<<"constructor">>} |-> ObjectFunction]

\* data[key]: the object's own property, else the one it inherits from
\* Object.prototype, else undefined.
get(data, key) ==
  IF key \in DOMAIN data THEN data[key]
  ELSE IF key \in DOMAIN ObjectPrototype THEN ObjectPrototype[key]
  ELSE Undefined

\* String.prototype.trim
RECURSIVE trim(_)
trim(k) ==
  IF k = <<>> THEN k
  ELSE IF Head(k) = " " THEN trim(Tail(k))
  ELSE IF k[Len(k)] = " " THEN trim(SubSeq(k, 1, Len(k) - 1))
  ELSE k

\* The position of the first "}" of t at or after k, or 0.
RECURSIVE firstClose(_, _)
firstClose(t, k) ==
  IF k > Len(t) THEN 0
  ELSE IF t[k] = "}" THEN k
  ELSE firstClose(t, k + 1)

\* /\{\{([^}]+)\}\}/ tried at position i of t: the position of the last
\* character of the match, or 0 when there is none.
matchEnd(t, i) ==
  IF i + 1 <= Len(t) /\ t[i] = "{" /\ t[i + 1] = "{"
  THEN LET j == firstClose(t, i + 2) IN
       IF j > i + 2 /\ j + 1 <= Len(t) /\ t[j + 1] = "}" THEN j + 1 ELSE 0
  ELSE 0

\* (match, key) => { const value = data[key.trim()];
\*                   return value !== undefined ? value : match; }
replacer(match, key, data) ==
  LET value == get(data, trim(key)) IN
  IF value # Undefined THEN value.s ELSE match

\* template.replace(regex, replacer) with the g flag, from position i on.
RECURSIVE replaceFrom(_, _, _)
replaceFrom(t, data, i) ==
  IF i > Len(t) THEN <<>>
  ELSE LET e == matchEnd(t, i) IN
       IF e = 0
       THEN <<t[i]>> \o replaceFrom(t, data, i + 1)
       ELSE replacer(SubSeq(t, i, e), SubSeq(t, i + 2, e - 2), data)
              \o replaceFrom(t, data, e + 1)

processTemplate(template, data) == replaceFrom(template, data, 1)

\* The values the key `name` may have in templateData, and templateData
\* with and without that key.
NameValues == {Str(<<"Ann">>), Str(<<>>), Zero}

TemplateDatas == {<<>>} \cup {[k \in {<<"name">>} |-> v] : v \in NameValues}

Templates == UNION {[1..k -> TemplateParts] : k \in 0..MaxParts}

InitRender ==
  /\ QuietSend
  /\ trk = None
  /\ hook = None
  /\ built = None
  /\ api = None
  /\ \E parts \in Templates, data \in TemplateDatas :
       tpl = [pc |-> "ready", parts |-> parts, data |-> data, out |-> <<>>]

Render ==
  /\ tpl.pc = "ready"
  /\ tpl' = [tpl EXCEPT !.pc = "done",
                        !.out = processTemplate(Flatten(tpl.parts), tpl.data)]
  /\ UNCHANGED <<trk, hook, sendVars, built, api>>

NextRender == Render

SpecRender == InitRender /\ [][NextRender]_vars

\* ------------------------------------ sendBulkEmails: the per-recipient data
\* templateData as the caller may supply it: a record of substitution
\* values, which may itself use the keys email and name.
CallerTemplateDatas ==
  {[company |-> "Acme"],
   [company |-> "Acme", email |-> "caller@x"],
   [company |-> "Acme", name |-> "Caller"],
   [company |-> "Acme", email |-> "caller@x", name |-> "Caller"]}

\* The BulkEmailData fields every per-recipient send shares; an absent cc or
\* bcc list is the empty list, an absent inline configuration is None.
BulkDatas ==
  [subject : {"S1", "S2"},
   body : {"B1"},
   from : Senders,
   cc : {<<>>, <<AllRecipients[3]>>},
   bcc : {<<>>, <<AllRecipients[4]>>},
   templateId : RequestTemplateIds,
   templateData : CallerTemplateDatas,
   smtpConfig : {None, "dynamic"}]

\* recipient.name || ''
\* Mutant: a missing name stays undefined.
nameOrUndefined(recipient) == recipient.name

nameOrEmpty(recipient) == IF recipient.name # None THEN recipient.name ELSE ""

\* { ...data.templateData, email: recipient.email, name: recipient.name || '' }
\* Mutant: the caller's templateData is spread last and wins.
templateDataCallerWins(td, recipient) ==
  [k \in DOMAIN td \cup {"email", "name"} |->
     IF k \in DOMAIN td THEN td[k]
     ELSE IF k = "email" THEN recipient.email
     ELSE nameOrEmpty(recipient)]

templateDataFor(td, recipient) ==
  [k \in DOMAIN td \cup {"email", "name"} |->
     IF k = "email" THEN recipient.email
     ELSE IF k = "name" THEN nameOrEmpty(recipient)
     ELSE td[k]]

\* const emailData: EmailData = { to: recipient, ... } (lines 373-387)
emailDataFor(data, recipient) ==
  [to |-> recipient,
   subject |-> data.subject,
   body |-> data.body,
   from |-> data.from,
   cc |-> data.cc,
   bcc |-> data.bcc,
   templateId |-> data.templateId,
   templateData |-> templateDataFor(data.templateData, recipient),
   smtpConfig |-> data.smtpConfig]

InitBuild ==
  /\ QuietSend
  /\ trk = None
  /\ hook = None
  /\ tpl = None
  /\ api = None
  /\ \E data \in BulkDatas, k \in DOMAIN AllRecipients :
       built = [pc |-> "ready", data |-> data, recipient |-> AllRecipients[k],
                emailData |-> None]

BuildEmailData ==
  /\ built.pc = "ready"
  /\ built' = [built EXCEPT !.pc = "done",
                            !.emailData = emailDataFor(built.data, built.recipient)]
  /\ UNCHANGED <<trk, hook, sendVars, tpl, api>>

NextBuild == BuildEmailData

SpecBuild == InitBuild /\ [][NextBuild]_vars

\* ------------------------------ a per-recipient send that renders a template
\* A templateData member as processTemplate reads it: a string by its
\* characters (a word held as one element), an unset member as undefined.
jsValue(v) ==
  IF v = None THEN Undefined
  ELSE IF v = "" THEN Str(<<>>)
  ELSE Str(<<v>>)

renderData(templateData) ==
  [k \in {<<f>> : f \in DOMAIN templateData} |-> jsValue(templateData[k[1]])]

\* The parts a stored template's body is composed of here.
BulkTemplateParts == {<<"{", "{">>, <<"}", "}">>, <<" ">>, <<"name">>, <<"email">>}

BulkTemplates == UNION {[1..k -> BulkTemplateParts] : k \in 0..MaxParts}

\* The bulk requests rendered: with and without email and name keys of the
\* caller's own, naming the stored template or one the store lacks.
RenderedBulkDatas ==
  {d \in BulkDatas :
     /\ d.subject = "S1" /\ d.from = NoSender /\ d.cc = <<>> /\ d.bcc = <<>>
     /\ d.smtpConfig = None
     /\ d.templateId # None
     /\ d.templateData \in {[company |-> "Acme"],
                            [company |-> "Acme", email |-> "caller@x", name |-> "Caller"]}}

InitBulkRender ==
  /\ QuietSend
  /\ trk = None
  /\ hook = None
  /\ api = None
  /\ \E data \in RenderedBulkDatas, k \in 1..2 :
       built = [pc |-> "ready", data |-> data, recipient |-> AllRecipients[k],
                emailData |-> None]
  /\ \E parts \in BulkTemplates :
       tpl = [pc |-> "ready", parts |-> parts, data |-> <<>>, out |-> <<>>]

\* generateEmailContent(data.templateId, data.templateData, subject, body) of
\* the per-recipient send, the body it returns (lines 126-153): the stored
\* template's body processed with the send's templateData, or the request's
\* body as it is when the store lacks the template.
RenderForRecipient ==
  /\ built.pc = "done"
  /\ tpl.pc = "ready"
  /\ LET e == built.emailData IN
       tpl' = [tpl EXCEPT
                 !.pc = "done",
                 !.data = renderData(e.templateData),
                 !.out = IF generateEmailContent(e.templateId, TemplateIds) = "template"
                         THEN processTemplate(Flatten(tpl.parts), renderData(e.templateData))
                         ELSE <<e.body>>]
  /\ UNCHANGED <<trk, hook, sendVars, built, api>>

NextBulkRender == BuildEmailData \/ RenderForRecipient

SpecBulkRender == InitBulkRender /\ [][NextBulkRender]_vars

\* ------------------------------------------ ApiService: the two send routes
\* A field of the JSON body: absent, an empty string, an empty array, or a
\* usable value.
SubjectValues == {"missing", "empty", "given"}
AddresseeValues == {"missing", "emptyList", "given"}

\* The bodies POST /api/email/send and POST /api/email/bulk may receive.
ApiBodies(route) ==
  IF route = "send"
  THEN [to : AddresseeValues, subject : SubjectValues, body : SubjectValues,
        smtpConfigId : RequestConfigIds]
  ELSE [recipients : AddresseeValues, subject : SubjectValues, body : SubjectValues,
        smtpConfigId : RequestConfigIds]

\* !v: undefined and '' are falsy, an array (even an empty one) is truthy.
falsy(v) == v \in {"missing", "empty"}

required(route) ==
  IF route = "send" THEN {"to", "subject", "body"} ELSE {"recipients", "subject", "body"}

\* if (!emailData.to || !emailData.subject || !emailData.body)
\* if (!bulkData.recipients || !bulkData.subject || !bulkData.body)
\* Mutant: the body field is not tested.
missingRequiredButBody(route, b) ==
  \E k \in required(route) \ {"body"} : falsy(b[k])

missingRequired(route, b) == \E k \in required(route) : falsy(b[k])

\* The results sendEmail may return (lines 253-255, 312, 333-336).
SendResults ==
  {[success |-> TRUE, message |-> "Message sent: MID1"],
   [success |-> FALSE, message |-> "SMTP configuration not found"],
   [success |-> FALSE, message |-> "TransportError"]}

\* The results sendBulkEmails may return (lines 354-359, 415-421); failures
\* is undefined ({}) or a list ({list}).
BulkResults ==
  {[success |-> FALSE, totalSent |-> 0, totalFailed |-> 0, failures |-> {},
    message |-> "No recipients provided"],
   [success |-> TRUE, totalSent |-> 2, totalFailed |-> 0, failures |-> {},
    message |-> "Successfully sent 2 out of 2 emails"],
   [success |-> TRUE, totalSent |-> 1, totalFailed |-> 1,
    failures |-> {<<[email |-> "b@x", error |-> "TransportError"]>>},
    message |-> "Successfully sent 1 out of 2 emails"],
   [success |-> FALSE, totalSent |-> 0, totalFailed |-> 1,
    failures |-> {<<[email |-> "a@x", error |-> "TransportError"]>>},
    message |-> "Successfully sent 0 out of 1 emails"]}

CoreResults(route) == IF route = "send" THEN SendResults ELSE BulkResults

NoResponse == [status |-> 0, body |-> <<>>]

\* The response of /api/email/send to a returned result (lines 100-110).
\* Mutant: a failure is answered with a fixed text.
sendResponseFixedError(r) ==
  IF r.success
  THEN [status |-> 200, body |-> [success |-> TRUE, message |-> r.message]]
  ELSE [status |-> 400, body |-> [success |-> FALSE, error |-> "Failed to send email"]]

sendResponse(r) ==
  IF r.success
  THEN [status |-> 200, body |-> [success |-> TRUE, message |-> r.message]]
  ELSE [status |-> 400, body |-> [success |-> FALSE, error |-> r.message]]

\* The response of /api/email/bulk: res.json(result) (line 130).  JSON
\* leaves out a member whose value is undefined.
bulkResponse(r) ==
  [status |-> 200,
   body |-> IF r.failures = {}
            THEN [success |-> r.success, totalSent |-> r.totalSent,
                  totalFailed |-> r.totalFailed, message |-> r.message]
            ELSE [success |-> r.success, totalSent |-> r.totalSent,
                  totalFailed |-> r.totalFailed, message |-> r.message,
                  failures |-> CHOOSE f \in r.failures : TRUE]]

InitApi ==
  /\ QuietSend
  /\ trk = None
  /\ hook = None
  /\ tpl = None
  /\ built = None
  /\ \E route \in {"send", "bulk"} :
       \E b \in ApiBodies(route) :
         api = [route |-> route, body |-> b, pc |-> "received", invoked |-> FALSE,
                returned |-> FALSE, result |-> None, response |-> NoResponse]

\* The route handler up to its await: the required fields are validated,
\* then sendEmail / sendBulkEmails is invoked.
ApiReceive ==
  /\ api.pc = "received"
  /\ api' = IF missingRequired(api.route, api.body)
            THEN [api EXCEPT !.pc = "responded",
                             !.response = [status |-> 400,
                                           body |-> [error |-> "Missing required fields"]]]
            ELSE [api EXCEPT !.pc = "called", !.invoked = TRUE]
  /\ UNCHANGED <<trk, hook, sendVars, tpl, built>>

\* The handler after its await, when sendEmail / sendBulkEmails returned a
\* result: the result is turned into the response.
ApiRespond ==
  /\ api.pc = "called"
  /\ \E r \in CoreResults(api.route) :
       api' = [api EXCEPT
                 !.pc = "responded",
                 !.returned = TRUE,
                 !.result = r,
                 !.response = IF api.route = "send" THEN sendResponse(r)
                              ELSE bulkResponse(r)]
  /\ UNCHANGED <<trk, hook, sendVars, tpl, built>>

\* The handler's catch block (lines 108-114, 131-137): the call threw.
ApiCatch ==
  /\ api.pc = "called"
  /\ api' = [api EXCEPT
               !.pc = "responded",
               !.response = [status |-> 500,
                             body |-> [error |-> "Internal server error",
                                       message |-> "error.message"]]]
  /\ UNCHANGED <<trk, hook, sendVars, tpl, built>>

NextApi == ApiReceive \/ ApiRespond \/ ApiCatch

SpecApi == InitApi /\ [][NextApi]_vars

\* ------------------------------------------- TrackingService: open tracking
\* The tracking ids of the emails that were sent; "tx" is an id no email has.
TrackingIds == {"t1", "t2"}

\* A row of email_logs as createEmailLog inserts it for a sent email; the
\* time 0 stands for NULL.
freshEmailLog(id) ==
  [id |-> id, status |-> "sent", openCount |-> 0, openedAt |-> 0, firstOpenedAt |-> 0]

\* A GET /track/open/:trackingId request and the recordEmailEvent call it
\* makes; emailLog is the row the call read ({} before that, or for null).
IdleTrack(id) ==
  [trackingId |-> id, pc |-> "idle", at |-> 0, emailLog |-> {}, response |-> None]

\* getEmailLogByTrackingId as written (lines 297-301): it returns null.
getEmailLogByTrackingId(rows, trackingId) == {}

\* getEmailLogByTrackingId as the database manager is to implement it: the
\* row of the email with that tracking id.
findEmailLogByTrackingId(rows, trackingId) ==
  IF trackingId \in DOMAIN rows THEN {rows[trackingId]} ELSE {}

\* The handler up to the recordEmailEvent call (lines 43-55): the event
\* carries the time of the request.
TrackOpen(r) ==
  /\ trk.reqs[r].pc = "idle"
  /\ trk' = [trk EXCEPT !.clock = @ + 1,
                        !.reqs[r].pc = "lookup",
                        !.reqs[r].at = trk.clock + 1]
  /\ UNCHANGED <<sendVars, tpl, built, api, hook>>

\* const emailLog = await this.getEmailLogByTrackingId(trackingId);
\* if (!emailLog) return;
TrackLookup(r) ==
  /\ trk.reqs[r].pc = "lookup"
  /\ LET l == getEmailLogByTrackingId(trk.rows, trk.reqs[r].trackingId) IN
       trk' = IF l = {}
              THEN [trk EXCEPT !.reqs[r].pc = "respond"]
              ELSE [trk EXCEPT !.reqs[r].pc = "createEvent", !.reqs[r].emailLog = l]
  /\ UNCHANGED <<sendVars, tpl, built, api, hook>>

\* The pixel is served (lines 57-71); recordEmailEvent never throws.
TrackPixel(r) ==
  /\ trk.reqs[r].pc = "respond"
  /\ trk' = [trk EXCEPT !.reqs[r].pc = "done", !.reqs[r].response = "pixel"]
  /\ UNCHANGED <<sendVars, tpl, built, api, hook>>

InitTrack ==
  /\ QuietSend
  /\ tpl = None
  /\ built = None
  /\ api = None
  /\ hook = None
  /\ \E ids \in [1..MaxRequests -> TrackingIds \cup {"tx"}] :
       trk = [rows |-> [t \in TrackingIds |-> freshEmailLog(t)],
              events |-> <<>>,
              reqs |-> [r \in 1..MaxRequests |-> IdleTrack(ids[r])],
              clock |-> 0]

NextTrack ==
  \E r \in 1..MaxRequests :
    \/ TrackOpen(r)
    \/ TrackLookup(r)
    \/ TrackPixel(r)

SpecTrack == InitTrack /\ [][NextTrack]_vars

\* ----------------------------------- recordEmailEvent on a row that is found
\* The same lookup with the database manager's part in place.
ReadEmailLog(r) ==
  /\ trk.reqs[r].pc = "lookup"
  /\ LET l == findEmailLogByTrackingId(trk.rows, trk.reqs[r].trackingId) IN
       trk' = IF l = {}
              THEN [trk EXCEPT !.reqs[r].pc = "respond"]
              ELSE [trk EXCEPT !.reqs[r].pc = "createEvent", !.reqs[r].emailLog = l]
  /\ UNCHANGED <<sendVars, tpl, built, api, hook>>

\* await this.dbManager.createEmailEvent({...}) (lines 261-267)
CreateEmailEvent(r) ==
  /\ trk.reqs[r].pc = "createEvent"
  /\ LET log == CHOOSE l \in trk.reqs[r].emailLog : TRUE IN
       trk' = [trk EXCEPT
                 !.events = Append(@, [emailLogId |-> log.id, eventType |-> "open",
                                       at |-> trk.reqs[r].at]),
                 !.reqs[r].pc = "update"]
  /\ UNCHANGED <<sendVars, tpl, built, api, hook>>

\* updateData of an open event (lines 270-275), from the row as it was read;
\* the time 0 stands for a member that is not set.
openUpdateData(emailLog, timestamp) ==
  [openedAt |-> timestamp,
   firstOpenedAt |-> IF emailLog.firstOpenedAt = 0 THEN timestamp ELSE 0]

\* DatabaseManager.updateEmailLogStatus on the row (lines 423-431):
\* opened_at = ?, open_count = open_count + 1, and first_opened_at = ? when
\* additionalData.firstOpenedAt is not set.
updateEmailLogStatus(row, additionalData) ==
  IF additionalData.openedAt # 0
  THEN [row EXCEPT !.openedAt = additionalData.openedAt,
                   !.openCount = @ + 1,
                   !.firstOpenedAt = IF additionalData.firstOpenedAt = 0
                                     THEN additionalData.openedAt
                                     ELSE @]
  ELSE row

\* await this.dbManager.updateEmailLogStatus(emailLog.id, emailLog.status,
\* updateData) (lines 288-290)
UpdateEmailLog(r) ==
  /\ trk.reqs[r].pc = "update"
  /\ LET log == CHOOSE l \in trk.reqs[r].emailLog : TRUE IN
       trk' = [trk EXCEPT
                 !.rows[log.id] = updateEmailLogStatus(@, openUpdateData(log, trk.reqs[r].at)),
                 !.reqs[r].pc = "respond"]
  /\ UNCHANGED <<sendVars, tpl, built, api, hook>>

NextOpens ==
  \E r \in 1..MaxRequests :
    \/ TrackOpen(r)
    \/ ReadEmailLog(r)
    \/ CreateEmailEvent(r)
    \/ UpdateEmailLog(r)
    \/ TrackPixel(r)

SpecOpens == InitTrack /\ [][NextOpens]_vars

\* ------------------------------------------------------------ WebhookService
\* The webhooks table (kept by the sqlite store): per webhook, whether it is
\* active and the event types it subscribes to.
WebhookIds == 1..MaxWebhooks

EventTypes == {"email.sent", "email.opened"}

Webhooks ==
  [WebhookIds -> [isActive : BOOLEAN,
                  events : {{"email.sent"}, {"email.opened"}, {"*"},
                            {"email.sent", "*"}}]]

\* DatabaseManager.getWebhooksByEvent:
\* webhooks.filter(wh => wh.isActive &&
\*                  (wh.events.includes(eventType) || wh.events.includes('*')))
\* Mutant: the wildcard subscription is not honoured.
getWebhooksByEventExact(webhooks, eventType) ==
  {w \in DOMAIN webhooks : webhooks[w].isActive /\ eventType \in webhooks[w].events}

getWebhooksByEvent(webhooks, eventType) ==
  {w \in DOMAIN webhooks :
     webhooks[w].isActive /\ (eventType \in webhooks[w].events \/ "*" \in webhooks[w].events)}

IdleDelivery == [pc |-> "idle", attempts |-> 0, success |-> FALSE, responseStatus |-> 0]

\* The service before a triggerWebhooks(eventType, payload) call with a
\* payload that is a JSON value.
InitHook ==
  /\ QuietSend
  /\ tpl = None
  /\ built = None
  /\ api = None
  /\ trk = None
  /\ \E webhooks \in Webhooks, eventType \in EventTypes :
       hook = [webhooks |-> webhooks, eventType |-> eventType,
               pc |-> "idle", outcome |-> None, found |-> "pending",
               sends |-> [w \in WebhookIds |-> IdleDelivery],
               deliveries |-> <<>>,
               counts |-> [w \in WebhookIds |-> [success |-> 0, failure |-> 0]]]

TriggerWebhooks ==
  /\ hook.pc = "idle"
  /\ hook' = [hook EXCEPT !.pc = "getWebhooks"]
  /\ UNCHANGED <<sendVars, tpl, built, api, trk>>

\* await this.dbManager.getWebhooksByEvent(eventType, userId) settles and the
\* rest of triggerWebhooks runs (lines 14-31): a rejection is caught and
\* logged; an empty list returns; otherwise forEach calls sendWebhook for
\* each webhook, which runs up to its fetch call, and triggerWebhooks
\* returns without awaiting any of them.
GetWebhooks ==
  /\ hook.pc = "getWebhooks"
  /\ \/ hook' = [hook EXCEPT !.pc = "returned", !.outcome = "resolved",
                              !.found = "error"]
     \/ LET webhooks == getWebhooksByEvent(hook.webhooks, hook.eventType) IN
          hook' = [hook EXCEPT
                     !.pc = "returned", !.outcome = "resolved", !.found = "ok",
                     !.sends = [w \in WebhookIds |->
                                  IF w \in webhooks
                                  THEN [@[w] EXCEPT !.pc = "fetch", !.attempts = @ + 1]
                                  ELSE @[w]]]
  /\ UNCHANGED <<sendVars, tpl, built, api, trk>>

\* The outcomes of await fetch(webhook.url, {..., signal}) and of reading
\* the body (lines 47-83): a response (ok or not; a body that cannot be read
\* becomes ''), a network error, or the abort at the timeout.  The status 0
\* stands for responseStatus left undefined.
FetchOutcomes ==
  {[success |-> TRUE, responseStatus |-> 200],
   [success |-> FALSE, responseStatus |-> 500],
   [success |-> FALSE, responseStatus |-> 0]}

FetchSettles(w) ==
  /\ hook.pc = "returned"
  /\ hook.sends[w].pc = "fetch"
  /\ \E o \in FetchOutcomes :
       hook' = [hook EXCEPT !.sends[w] = [@ EXCEPT !.pc = "finally",
                                                   !.success = o.success,
                                                   !.responseStatus = o.responseStatus]]
  /\ UNCHANGED <<sendVars, tpl, built, api, trk>>

\* DatabaseManager.logWebhookDelivery (lines 697-734): the delivery row is
\* inserted and the webhook's success or failure count is increased.
logWebhookDelivery(h, w) ==
  [h EXCEPT
     !.deliveries = Append(@, [webhookId |-> w, eventType |-> h.eventType,
                               responseStatus |-> h.sends[w].responseStatus]),
     !.counts[w] = IF h.sends[w].success
                   THEN [@ EXCEPT !.success = @ + 1]
                   ELSE [@ EXCEPT !.failure = @ + 1]]

\* finally { await this.dbManager.logWebhookDelivery({...}) } (lines 84-102):
\* the record is written and sendWebhook resolves, or the write raises and
\* sendWebhook rejects.
LogDelivery(w) ==
  /\ hook.sends[w].pc = "finally"
  /\ \/ hook' = [logWebhookDelivery(hook, w) EXCEPT !.sends[w].pc = "done"]
     \/ hook' = [hook EXCEPT !.sends[w].pc = "rejected"]
  /\ UNCHANGED <<sendVars, tpl, built, api, trk>>

\* .catch(err => logToFile(`Failed to trigger webhook ...`)) (lines 24-26)
CatchRejected(w) ==
  /\ hook.sends[w].pc = "rejected"
  /\ hook' = [hook EXCEPT !.sends[w].pc = "caught"]
  /\ UNCHANGED <<sendVars, tpl, built, api, trk>>

NextHook ==
  \/ TriggerWebhooks
  \/ GetWebhooks
  \/ \E w \in WebhookIds :
       \/ FetchSettles(w)
       \/ LogDelivery(w)
       \/ CatchRejected(w)

SpecHook == InitHook /\ [][NextHook]_vars

\* ------------------------------------------------------------------ claims
BulkDone == req.mode = "bulk" /\ bulk.pc = "done" /\ req.n >= 1

\* The entries of failures that name the recipient at position s.
failuresOf(fs, s) == {j \in DOMAIN fs : fs[j].email = recipients[s].email}

okCount == Cardinality({s \in Sends : send[s].outcome = "ok"})

\* C1: when a bulk call with n >= 1 recipients has returned, totalSent +
\* totalFailed = n, totalFailed is the length of failures, and every
\* recipient is counted exactly once: as a success or as one failures entry.
C1_TallyCoversRecipients ==
  BulkDone =>
    /\ bulk.result.totalSent + bulk.result.totalFailed = req.n
    /\ bulk.result.totalFailed = Len(bulk.result.failures)
    /\ bulk.result.totalSent = okCount
    /\ \A s \in Sends :
         Cardinality(failuresOf(bulk.result.failures, s))
           = (IF send[s].outcome = "ok" THEN 0 ELSE 1)

\* Two recipients in one batch whose failures arrived in the reverse of the
\* input order.
C1_Witness ==
  /\ BulkDone
  /\ req.n = 2
  /\ bulk.result.totalFailed = 2
  /\ bulk.result.failures[1].email = recipients[2].email
  /\ bulk.result.failures[2].email = recipients[1].email

\* C2: when a bulk call with n >= 1 recipients has returned, exactly one
\* log entry has been appended for every recipient.
C2_OneLogEntryPerRecipient ==
  BulkDone => \A s \in Sends : Len(logs[s]) = 1

\* C3: no error escapes sendEmail: every sendEmail that settles returns a
\* {success, message} value.
C3_SendEmailNeverRaises ==
  \A s \in Sends : send[s].pc = "done" => send[s].outcome # "thrown"

\* C4: createTransport binds the transport to the inline configuration when
\* the request carries one; otherwise to the stored configuration named by
\* smtpConfigId when one is named; otherwise to the store's default.
C4_ResolutionPrecedence ==
  [][\A s \in Sends :
       (send[s].pc = "createTransport" /\ send'[s].pc = "lookup") =>
         /\ req.dynamic => send'[s].transport = "dynamic"
         /\ (~req.dynamic /\ req.smtpConfigId # None)
              => send'[s].transport = req.smtpConfigId
         /\ (~req.dynamic /\ req.smtpConfigId = None)
              => send'[s].transport = store.dflt]_vars

\* An inline configuration was used although the request also names a
\* stored configuration and the store holds a different default.
C4_Witness ==
  \E s \in Sends :
    /\ send[s].transport = "dynamic"
    /\ req.smtpConfigId = "c1"
    /\ "c1" \in store.present
    /\ store.dflt = "c2"

ResolutionErrors == {"ConfigNotFound", "NoDefaultConfig"}

\* C5: a send whose transport resolution failed makes no deliver call and,
\* once settled, has returned {success: false} with the resolution error as
\* its message.
C5_ResolutionFailureReturned ==
  \A s \in Sends :
    send[s].err \in ResolutionErrors =>
      /\ send[s].delivers = 0
      /\ send[s].pc = "done" =>
           /\ send[s].outcome = "fail"
           /\ send[s].result = [success |-> FALSE, message |-> errorMessage(send[s].err)]

\* C6: a send in which a log append failed still completes with a result.
C6_LogFailureDoesNotAbort ==
  \A s \in Sends :
    (send[s].pc = "done" /\ send[s].logErrors > 0) => send[s].result # None

\* C7: when a bulk call has returned, every recipient was attempted and has
\* settled, failures holds exactly the recipients whose send failed (by a
\* failure result or a thrown error), and all others are in totalSent.
C7_FailureDoesNotAbortBulk ==
  BulkDone =>
    /\ \A s \in Sends : send[s].pc = "done"
    /\ {bulk.result.failures[j].email : j \in DOMAIN bulk.result.failures}
         = {recipients[s].email : s \in {x \in Sends : send[x].outcome \in {"fail", "thrown"}}}
    /\ bulk.result.totalSent = Cardinality({s \in Sends : send[s].outcome = "ok"})

\* Two batches of one; the first recipient's send threw and the second
\* recipient was still delivered.
C7_Witness ==
  /\ BulkDone
  /\ req.n = 2
  /\ batchSize = 1
  /\ send[1].outcome = "thrown"
  /\ send[2].outcome = "ok"
  /\ bulk.result.totalSent = 1
  /\ bulk.result.totalFailed = 1
  /\ bulk.result.failures[1].email = recipients[1].email

\* C8: no send of a later batch has been started while a send of an earlier
\* batch is unsettled.
C8_BatchBarrier ==
  \A s, t \in Sends :
    (send[s].batchNo >= 1 /\ send[s].batchNo < send[t].batchNo /\ send[t].pc # "idle")
      => send[s].pc = "done"

\* A send of the second batch is in progress.
C8_Witness ==
  \E s, t \in Sends :
    /\ send[s].batchNo = 1
    /\ send[t].batchNo = 2
    /\ send[t].pc = "deliver"

\* C9: every batch issued is the next batchSize positions of the list (fewer
\* only at the end of the list, never none), the pause is taken only when a
\* batch follows, and a returned call has issued ceil(n / batchSize) batches
\* with a pause between each two.
C9_ContiguousBatches ==
  req.mode = "bulk" =>
    /\ bulk.pc = "await" =>
         /\ bulk.batch = {p \in 1..req.n : bulk.i < p /\ p <= bulk.i + batchSize}
         /\ bulk.batch # {}
    /\ bulk.pc = "delay" => bulk.i + batchSize < req.n
    /\ BulkDone =>
         /\ bulk.nbatches * batchSize >= req.n
         /\ (bulk.nbatches - 1) * batchSize < req.n
         /\ bulk.pauses = bulk.nbatches - 1

\* C10: sendEmail is invoked at most once per recipient of a bulk call and
\* calls deliver at most once; a settled recipient is delivered or failed
\* and is not attempted again.
C10_NoRetry ==
  req.mode = "bulk" =>
    \A s \in Sends :
      /\ send[s].attempts <= 1
      /\ send[s].delivers <= send[s].attempts
      /\ send[s].pc = "done" => send[s].outcome \in {"ok", "fail", "thrown"}

\* A recipient's delivery failed and the bulk call has returned.
C10_Witness ==
  /\ BulkDone
  /\ \E s \in Sends :
       send[s].err = "TransportError" /\ send[s].delivers = 1 /\ send[s].outcome = "fail"

\* C11: a bulk call with an empty recipient list returns at once with
\* success = false, totalSent = 0 and totalFailed = 0: the batch loop is never
\* entered, no sendEmail is started (so no transport is resolved or
\* contacted) and no log entry is written.
C11_EmptyListRejected ==
  (req.mode = "bulk" /\ req.n = 0) =>
    /\ bulk.pc \in {"idle", "done"}
    /\ bulk.nbatches = 0
    /\ \A s \in DOMAIN send : send[s].attempts = 0 /\ send[s].transport = None
    /\ \A s \in DOMAIN logs : logs[s] = <<>>
    /\ bulk.pc = "done" =>
         /\ bulk.result.success = FALSE
         /\ bulk.result.totalSent = 0
         /\ bulk.result.totalFailed = 0

\* A bulk call with no recipients has returned.
C11_Witness ==
  /\ req.mode = "bulk"
  /\ req.n = 0
  /\ bulk.pc = "done"
  /\ bulk.result.success = FALSE

\* C12: the success flag of a returned bulk call is true exactly when at
\* least one recipient's send succeeded, that is when totalSent > 0.
C12_SuccessIffSomeSent ==
  (req.mode = "bulk" /\ bulk.pc = "done") =>
    /\ bulk.result.success <=> (okCount > 0)
    /\ bulk.result.success <=> (bulk.result.totalSent > 0)

\* One recipient was delivered, the other failed, and the call reports
\* success.
C12_Witness ==
  /\ BulkDone
  /\ req.n = 2
  /\ okCount = 1
  /\ bulk.result.totalFailed = 1
  /\ bulk.result.success = TRUE

\* The entries a send wrote are one per recipient of data.to, in order, all
\* with the given success flag and message.
entriesAre(s, success, message) ==
  /\ Len(logs[s]) = Len(To(s))
  /\ \A k \in DOMAIN logs[s] :
       /\ logs[s][k].recipient = To(s)[k].email
       /\ logs[s][k].success = success
       /\ logs[s][k].message = message

\* C13: a Single-Send that has settled without a successful delivery (the
\* Template Store was unavailable, the transport could not be resolved, or
\* the deliver call failed) has written exactly one success = false entry
\* with the error text for each recipient of `to` and has returned
\* {success: false, message: that error text}.
C13_FailureLoggedAndReturned ==
  \A s \in Sends :
    (send[s].pc = "done" /\ send[s].mid = None) =>
      /\ send[s].outcome = "fail"
      /\ send[s].result.success = FALSE
      /\ entriesAre(s, FALSE, send[s].result.message)

\* C14: a Single-Send whose deliver call succeeded has, once settled,
\* written exactly one success = true entry carrying the message id for each
\* recipient of `to` and has returned {success: true} with a message that
\* carries the message id.
C14_DeliveredLoggedAndReturned ==
  \A s \in Sends :
    (send[s].pc = "done" /\ send[s].mid # None) =>
      /\ send[s].outcome = "ok"
      /\ send[s].result = [success |-> TRUE, message |-> sentMessage(send[s].mid)]
      /\ entriesAre(s, TRUE, sentMessage(send[s].mid))

\* C15: a Single-Send makes one deliver call for all its recipients, never
\* one per recipient, and all the entries it writes carry one success flag,
\* the flag it returns.
C15_OneDeliverOneFlag ==
  \A s \in Sends :
    /\ send[s].delivers <= 1
    /\ send[s].pc \in {"logOk", "done"} /\ send[s].mid # None => send[s].delivers = 1
    /\ \A j, k \in DOMAIN logs[s] : logs[s][j].success = logs[s][k].success
    /\ (send[s].pc = "done" /\ send[s].outcome \in {"ok", "fail"}) =>
         \A k \in DOMAIN logs[s] : logs[s][k].success = send[s].result.success

\* The rendering the claim describes, part by part: a token is "{{", the
\* parts up to the next "}}", and that "}}"; its key is what lies between,
\* blanks trimmed.  A token whose key the data holds is replaced by the
\* value's string form; every other token, and all text outside tokens, is
\* kept.
RECURSIVE nextClose(_, _)
nextClose(parts, k) ==
  IF k > Len(parts) THEN 0
  ELSE IF parts[k] = <<"}", "}">> THEN k
  ELSE nextClose(parts, k + 1)

RECURSIVE rendered(_, _)
rendered(parts, data) ==
  IF parts = <<>> THEN <<>>
  ELSE LET j == IF Head(parts) = <<"{", "{">> THEN nextClose(parts, 2) ELSE 0
           key == trim(Flatten(SubSeq(parts, 2, j - 1)))
           rest == SubSeq(parts, j + 1, Len(parts))
       IN IF j > 2 /\ key \in DOMAIN data
          THEN data[key].s \o rendered(rest, data)
          ELSE IF j > 2
          THEN Flatten(SubSeq(parts, 1, j)) \o rendered(rest, data)
          ELSE Head(parts) \o rendered(Tail(parts), data)

\* C16: rendering replaces every {{key}} token whose key (blanks trimmed)
\* the data holds by the string form of the value, also when the value is
\* falsy, and leaves every token whose key the data does not hold, and all
\* other text, unchanged.
C16_RenderReplacesPresentKeys ==
  tpl.pc = "done" => tpl.out = rendered(tpl.parts, tpl.data)

\* The send at position s named a template the Template Store lacks, and the
\* store has answered.
missingTemplate(s) ==
  req.templateId \notin TemplateIds \cup {None} /\ send[s].content # None

\* C17: a Single-Send naming a template the Template Store lacks goes on
\* with the literal subject and body, makes the deliver call, and returns
\* success exactly when the deliver call succeeded.
C17_MissingTemplateNonFatal ==
  \A s \in Sends :
    missingTemplate(s) =>
      /\ send[s].content = "literal"
      /\ send[s].err # "TemplateStoreError"
      /\ send[s].pc \in {"deliver", "logOk", "catch", "done"}
      /\ send[s].pc # "deliver" => send[s].delivers = 1
      /\ send[s].pc = "done" => (send[s].outcome = "ok" <=> send[s].mid # None)

\* C18: the request a bulk call builds for one recipient carries the bulk
\* request's subject, body, sender, template reference, cc, bcc and inline
\* transport configuration unchanged; its substitution data hold the
\* caller's values except that email is the recipient's own address and name
\* the recipient's own name (empty when the recipient has none), whatever
\* the caller supplied under those keys.
C18_PerRecipientDataInherited ==
  built.pc = "done" =>
    LET e == built.emailData
        d == built.data
    IN /\ e.to = built.recipient
       /\ e.subject = d.subject
       /\ e.body = d.body
       /\ e.from = d.from
       /\ e.templateId = d.templateId
       /\ e.cc = d.cc
       /\ e.bcc = d.bcc
       /\ e.smtpConfig = d.smtpConfig
       /\ e.templateData.email = built.recipient.email
       /\ e.templateData.name =
            (IF built.recipient.name = None THEN "" ELSE built.recipient.name)
       /\ \A k \in DOMAIN d.templateData \ {"email", "name"} :
            k \in DOMAIN e.templateData /\ e.templateData[k] = d.templateData[k]

\* The caller supplied email and name keys of its own and the recipient has
\* a name; the built data carry the recipient's.
C18_Witness ==
  /\ built.pc = "done"
  /\ built.data.templateData = [company |-> "Acme", email |-> "caller@x", name |-> "Caller"]
  /\ built.recipient = AllRecipients[1]
  /\ built.emailData.templateData =
       [company |-> "Acme", email |-> "a@x", name |-> "Ann"]
  /\ built.data.from # NoSender
  /\ built.data.smtpConfig = "dynamic"

\* The elements of a sequence.
Range(q) == {q[k] : k \in DOMAIN q}

\* C19: the message handed to the deliver call has, when the request names
\* no sender, the authenticated account of the configuration the transport
\* was built from as its sender, and, when the request names one, that
\* sender.
C19_SenderOfTransportConfig ==
  \A s \in Sends :
    send[s].delivers >= 1 =>
      IF req.from = NoSender
      THEN send[s].from = <<authUser(send[s].transport)>>
      ELSE /\ req.from.email \in Range(send[s].from)
           /\ req.from.name # None => req.from.name \in Range(send[s].from)
           /\ authUser(send[s].transport) \notin Range(send[s].from)

carries(b, k, v) == k \in DOMAIN b /\ b[k] = v

C22_OpenIsRecorded ==
  \A r \in DOMAIN trk.reqs :
    (trk.reqs[r].pc = "done" /\ trk.reqs[r].trackingId \in TrackingIds) =>
      /\ trk.reqs[r].response = "pixel"
      /\ \E k \in DOMAIN trk.events :
           /\ trk.events[k].emailLogId = trk.reqs[r].trackingId
           /\ trk.events[k].eventType = "open"
      /\ trk.rows[trk.reqs[r].trackingId].openCount >= 1
      /\ trk.rows[trk.reqs[r].trackingId].openedAt # 0

\* The open events of email log id, in the order they were created.
eventsOf(id) == SelectSeq(trk.events, LAMBDA e : e.emailLogId = id /\ e.eventType = "open")

C23_BulkEventuallyReturns == <>(bulk.pc = "done")

\* C24: a Single-Send returns success = true exactly when deliver accepted
\* the message, and a send whose message was accepted is never returned or
\* logged as failed, also when a log append fails afterwards.
C24_SuccessIffDelivered ==
  \A s \in Sends :
    /\ send[s].pc = "done" => (send[s].outcome = "ok" <=> send[s].mid # None)
    /\ send[s].mid # None => \A k \in DOMAIN logs[s] : logs[s][k].success

\* C25: within one Single-Send that uses a stored configuration, the
\* configuration the transport is bound to is the one used for the default
\* sender and the one every log entry names, also when the store is changed
\* meanwhile; and a send that obtained its transport never returns with
\* neither a delivery attempt nor a log entry.
C25_OneConfigurationPerSend ==
  \A s \in Sends :
    (~req.dynamic /\ send[s].transport # None) =>
      /\ send[s].smtpConfig # None => send[s].smtpConfig = send[s].transport
      /\ \A k \in DOMAIN logs[s] : logs[s][k].smtpConfig = send[s].transport
      /\ (send[s].pc = "done" /\ send[s].outcome # "thrown") =>
           (send[s].delivers >= 1 \/ Len(logs[s]) >= 1)

\* C27: every EmailLogEntry of a send whose transport was resolved names the
\* configuration the transport is bound to - the stored configuration's id,
\* or "dynamic" for an inline one - whether the send failed or succeeded.
C27_EntryNamesResolvedConfig ==
  \A s \in Sends :
    \A k \in DOMAIN logs[s] :
      send[s].transport # None => logs[s][k].smtpConfig = send[s].transport

\* The per-recipient sends of the call that have been issued and have not
\* settled.
inFlight == {s \in Sends : send[s].pc \notin {"idle", "done"}}

\* C26: at every moment of a sendBulkEmails call at which per-recipient
\* sends are in flight, they are at most batchSize.
C26_InFlightAtMostBatchSize ==
  (req.mode = "bulk" /\ inFlight # {}) => Cardinality(inFlight) <= batchSize

\* What the claim has the tokens stand for: the recipient's address, and the
\* recipient's name or the empty string.
recipientData(recipient) ==
  [k \in {<<"email">>, <<"name">>} |->
     IF k = <<"email">> THEN Str(<<recipient.email>>)
     ELSE IF recipient.name = None THEN Str(<<>>) ELSE Str(<<recipient.name>>)]

\* C28: in a bulk send that uses a template, every {{email}} token renders
\* as the recipient's address and every {{name}} token as the recipient's
\* name, or as the empty string for a recipient without one; neither is left
\* as the literal token.
C28_RecipientTokensRendered ==
  (tpl.pc = "done" /\ built.data.templateId \in TemplateIds) =>
    tpl.out = rendered(tpl.parts, recipientData(built.recipient))

\* A template with both tokens, rendered for the recipient without a name
\* against a caller who supplied email and name keys of its own.
C28_Witness ==
  /\ tpl.pc = "done"
  /\ built.data.templateId \in TemplateIds
  /\ built.recipient = AllRecipients[2]
  /\ "name" \in DOMAIN built.data.templateData
  /\ tpl.parts = <<<<"{", "{">>, <<"name">>, <<"}", "}">>,
                   <<"{", "{">>, <<"email">>, <<"}", "}">>>>
  /\ tpl.out = <<"b@x">>

\* The webhook-delivery records of webhook w.
deliveriesOf(w) == SelectSeq(hook.deliveries, LAMBDA d : d.webhookId = w)

\* Webhook w is active and subscribed to the event type of the call, or to
\* every event type.
subscribed(w) ==
  /\ hook.webhooks[w].isActive
  /\ hook.eventType \in hook.webhooks[w].events \/ "*" \in hook.webhooks[w].events

====
